---- MODULE Spec2Model ----
(***************************************************************************)
(* The frame pipeline of nimsforestsprites (renderer.go): one Renderer,    *)
(* its callers (Update, Render, Close), the producer goroutine of a        *)
(* Frames stream with its consumer, and the ebiten game loop that feeds    *)
(* the accelerated handoff buffer frameCh.                                 *)
(*                                                                         *)
(* Every section of code that runs with r.mu held is one action; the code  *)
(* between two lock sections is a separate action, so that other           *)
(* goroutines interleave exactly where the code lets them.                 *)
(*                                                                         *)
(* A frame is the triple (state drawn, tick drawn, what the provider       *)
(* returned when it was drawn): every pixel of a frame is a function of    *)
(* the three (drawScene, renderFrameSoftware).                             *)
(*                                                                         *)
(* Further sections model the Scene (the scene graph with Z-sorted         *)
(* sprites), the pure computations of the backends (the pulse of a land,   *)
(* the placement of shapes), the constructor New, the demo program's       *)
(* counting consumer, a provider that changes between pushes, and callers  *)
(* of Close.  Each section has its own variables and its own               *)
(* specification; the variables of the other sections stay at rest.        *)
(* Real numbers of the code are fixed-point numbers here.                  *)
(***************************************************************************)
EXTENDS Integers, Sequences, FiniteSets, TLC

\* ---- bounds of the model ----
\* r.tick is an unbounded int: the tick-advancing actions stop at MaxTick in
\* software mode and at MaxGpuTick in accelerated mode (where the handoff
\* buffer multiplies the states of every tick).
MaxTick == 3
MaxGpuTick == 1
\* The most processes a world state handed to the Scene holds.
MaxProcs == 2
\* Scene.tick is an unbounded int: Scene.Update stops at MaxSceneTick.
MaxSceneTick == 5
\* The ticks a land tile is drawn at: two periods of the pulse.
MaxAlphaTick == 120
\* Options fields range over -MaxOpt..MaxOpt.
MaxOpt == 1
\* Grid coordinates range over -MaxCoord/4..MaxCoord/4.
MaxCoord == 5
\* The provider changes at most MaxVersion times.
MaxVersion == 2
MaxPix == 2
MaxOrderTick == 2

\* ---- program constants ----
FrameChCap == 2
FramesCap == 2
IndicatorPeriod == 60
IndicatorOrigin == 10
IndicatorStep == 2
\* Scene coordinates and progress are fixed-point numbers in hundredths.
ZBias == 10
ProgressStep == 2
ProgressOne == 100
PulsePeriod == 60
AlphaBase == 200
AlphaSpan == 55
NoAlpha == -1
DefaultWidth == 1920
DefaultHeight == 1080
DefaultFrameRate == 30
DefaultScale == 1
\* Grid coordinates, scales and the bounce are fixed-point numbers in quarters;
\* screen positions are in quarters of a pixel.
Quarter == 4
GridOrigin == 100
TileBase == 64
BounceAmp == 3

\* ---- the values the model draws its inputs from ----
\* The State interface values a caller can pass: nil, or a provider.
NilState == "nil"
States == {NilState, "sA"}
Callers == {"r1"}
Updaters == {"u1", "u2"}
MainUpdaters == {"u1"}
Streams == {"f1"}
Closers == {"k1", "k2"}
NoCall == "none"

\* image.Image values: the nil image, and the frames drawn from (state, tick).
NoContent == -1
NilSnap == [st |-> NilState, tk |-> -1]
NilFrame == [st |-> NilState, tk |-> -1, content |-> NoContent]
NoIndicator == -1

\* World states handed to the Scene: the null state, or a provider's lands and
\* processes.  Process i has id i, grid x = i and the drawn y and progress.
YVals == {0, 100}
ProgVals == {0, 95}
LandSeqs == {<<>>, <<[id |-> 1, x |-> 100, y |-> 0]>>}
ProcSeqs ==
    UNION {{[i \in 1..n |-> [id |-> i, x |-> 100 * i, y |-> f[i][1],
                             progress |-> f[i][2]]] :
               f \in [1..n -> YVals \X ProgVals]} : n \in 0..MaxProcs}
NoWorld == [kind |-> "none", lands |-> <<>>, procs |-> <<>>]
NilWorld == [kind |-> "nil", lands |-> <<>>, procs |-> <<>>]
Worlds ==
    {NilWorld} \cup
    {[kind |-> "state", lands |-> l, procs |-> p] : l \in LandSeqs, p \in ProcSeqs}

\* World states of one process whose progress may lie outside [0, 1]:
\* -0.5, -0.01, 0, 0.5, 1, 1.01 and 1.5.
AnyProgVals == {-50, -1, 0, 50, 100, 101, 150}
AnyProgressWorlds ==
    {[kind |-> "state", lands |-> <<>>,
      procs |-> <<[id |-> 1, x |-> 100, y |-> 0, progress |-> q]>>] :
         q \in AnyProgVals}

VARIABLES
    useGPU,     \* r.opts.UseGPU
    state,      \* r.state
    tick,       \* r.tick
    closed,     \* r.closed
    frameCh,    \* r.frameCh: the accelerated handoff buffer
    gReady,     \* ebitenGame.ready
    gpc,        \* where ebitenGame.Draw is: "idle" | "drawn"
    gsnap,      \* Draw's locals state and tick
    upd,        \* Update calls waiting for the lock: their argument
    rpc,        \* where each Render call is
    rarg,       \* Render's parameter state
    rtick,      \* the tick Render's lock section advanced to
    rcl,        \* r.closed as it was in Render's lock section
    rres,       \* what the last Render call returned
    rcalls,     \* the number of Render calls made so far
    spc,        \* where each Frames goroutine is
    cancelled,  \* ctx.Done() of each Frames call
    sstate,     \* the goroutine's local state
    stick,      \* the tick the goroutine's lock section advanced to
    sframe,     \* the goroutine's local frame
    frames,     \* the output channel of each Frames call
    chClosed,   \* whether the output channel has been closed
    \* the Scene (scene graph)
    scLands,    \* Scene.lands
    scSprites,  \* Scene.sprites
    scTick,     \* Scene.tick
    scLast,     \* history: the argument of the latest UpdateFromState call
    scSince,    \* history: Scene ticks since the latest UpdateFromState call
    \* the pulse of a land tile
    aTick,      \* the tick a land tile is drawn at
    aOut,       \* the alpha it is drawn with (NoAlpha before it is drawn)
    \* the constructor
    nIn,        \* the Options handed to New
    nOut,       \* the opts of the Renderer New returned
    nErr,       \* the error New returned ("pending" before it returns)
    \* the placement of shapes by the two backends
    pIn,        \* a grid position, a scale and a bounce
    pOut,       \* where each backend puts a land and a process there
    \* the demo program's consumer
    frameCount, \* the frames it has received
    lagged,     \* history: it received some frame only after the next tick began
    \* the state provider
    world,      \* the version of what the provider's Lands and Processes return
    \* callers of Close
    kpc,        \* where each one is: "idle", "waiting" for r.mu, "returned"
    kerr,       \* the error its latest Close returned ("none" before)
    \* the software rasterizer
    rasIn,      \* the shape to fill and the buffer size given to the helper
    rasOut,     \* whether it was drawn, and the pixels passed to img.SetRGBA
    pushed      \* history: that version when the stored state was last pushed

rvars == <<rpc, rarg, rtick, rcl, rres, rcalls>>
svars == <<spc, cancelled, sstate, stick, sframe, frames, chClosed>>
gvars == <<gReady, gpc, gsnap>>
coreVars == <<useGPU, state, tick, closed, frameCh, gvars, upd, rvars, svars>>
sceneVars == <<scLands, scSprites, scTick, scLast, scSince>>
alphaVars == <<aTick, aOut>>
newVars == <<nIn, nOut, nErr>>
posVars == <<pIn, pOut>>
demoVars == <<frameCount, lagged>>
provVars == <<world>>
closeVars == <<kpc, kerr>>
rastVars == <<rasIn, rasOut>>
extVars == <<sceneVars, alphaVars, newVars, posVars, demoVars, provVars, closeVars, rastVars>>
nonSceneVars == <<coreVars, pushed, alphaVars, newVars, posVars, demoVars, provVars, closeVars, rastVars>>
nonAlphaVars == <<coreVars, pushed, sceneVars, newVars, posVars, demoVars, provVars, closeVars, rastVars>>
nonNewVars == <<coreVars, pushed, sceneVars, alphaVars, posVars, demoVars, provVars, closeVars, rastVars>>
nonPosVars == <<coreVars, pushed, sceneVars, alphaVars, newVars, demoVars, provVars, closeVars, rastVars>>
nonDemoVars == <<coreVars, pushed, sceneVars, alphaVars, newVars, posVars, provVars, closeVars, rastVars>>
nonProvVars == <<coreVars, pushed, sceneVars, alphaVars, newVars, posVars, demoVars, closeVars, rastVars>>
nonCloseVars == <<coreVars, pushed, sceneVars, alphaVars, newVars, posVars, demoVars, provVars, rastVars>>
nonRastVars == <<coreVars, pushed, sceneVars, alphaVars, newVars, posVars, demoVars, provVars, closeVars>>
demoRestVars == <<sceneVars, alphaVars, newVars, posVars, provVars, closeVars, rastVars>>
closeRestVars == <<sceneVars, alphaVars, newVars, posVars, demoVars, provVars, rastVars>>
vars == <<coreVars, extVars, pushed>>

\* ---- pure helpers ----

\* renderer.go:191-193 and 327-329: the x of the frame indicator.
frameX(t) == IndicatorOrigin + (t % IndicatorPeriod) * IndicatorStep

\* The indicator of a frame: nothing is drawn past the background for a nil state.
Indicator(f) == IF f.st = NilState THEN NoIndicator ELSE frameX(f.tk)

\* A non-blocking send on a buffered channel: select { case ch <- f: default: }
TrySend(ch, f, cap) == IF Len(ch) < cap THEN Append(ch, f) ELSE ch

\* The tick-advancing actions stop here.
TickCap == IF useGPU THEN MaxGpuTick ELSE MaxTick

\* renderFrameSoftware(state): reads r.tick under RLock and draws.
\* What the provider behind the state st returns when a backend calls
\* state.Lands() and state.Processes(): the renderer holds the provider itself.
Content(st) == IF st = NilState THEN NoContent ELSE world

\* The image of state st at tick tk, drawn now.
Drawn(st, tk) == [st |-> st, tk |-> tk, content |-> Content(st)]

renderFrameSoftware(st) == Drawn(st, tick)

RendererInit ==
    /\ useGPU \in BOOLEAN
    /\ state = NilState
    /\ tick = 0
    /\ closed = FALSE
    /\ frameCh = <<>>
    /\ gReady = FALSE
    /\ gpc = "idle"
    /\ gsnap = NilSnap
    /\ upd = [u \in Updaters |-> NoCall]
    /\ rpc = [c \in Callers |-> "idle"]
    /\ rarg = [c \in Callers |-> NilState]
    /\ rtick = [c \in Callers |-> 0]
    /\ rcl = [c \in Callers |-> FALSE]
    /\ rres = [c \in Callers |-> NilFrame]
    /\ rcalls = 0
    /\ spc = [s \in Streams |-> "unstarted"]
    /\ cancelled = [s \in Streams |-> FALSE]
    /\ sstate = [s \in Streams |-> NilState]
    /\ stick = [s \in Streams |-> 0]
    /\ sframe = [s \in Streams |-> NilFrame]
    /\ frames = [s \in Streams |-> <<>>]
    /\ chClosed = [s \in Streams |-> FALSE]
    /\ pushed = NoContent

\* NewScene: no lands, no sprites, tick 0.
SceneIdle ==
    /\ scLands = <<>>
    /\ scSprites = <<>>
    /\ scTick = 0
    /\ scLast = NoWorld
    /\ scSince = 0

AlphaIdle ==
    /\ aTick = 0
    /\ aOut = NoAlpha

\* Options values: every field from -MaxOpt to MaxOpt, zero included.
OptVals == (0 - MaxOpt)..MaxOpt
OptionsIn == [width : OptVals, height : OptVals, frameRate : OptVals, scale : OptVals]
NoOptions == [width |-> 0, height |-> 0, frameRate |-> 0, scale |-> 0]

NewIdle ==
    /\ nIn = NoOptions
    /\ nOut = NoOptions
    /\ nErr = "pending"

\* Grid coordinates from -MaxCoord/4 to MaxCoord/4, the scales 0.5, 1 and 2,
\* and bounces over [-3, 3].
CoordVals == (0 - MaxCoord)..MaxCoord
ScaleVals == {2, 4, 8}
BounceVals == {0 - BounceAmp * Quarter, -5, 0, 3, BounceAmp * Quarter}
PosIn == [x : CoordVals, y : CoordVals, scale : ScaleVals, bounce : BounceVals]
NoPosIn == [x |-> 0, y |-> 0, scale |-> Quarter, bounce |-> 0]
NoPos == [drawn |-> FALSE]

PosIdle ==
    /\ pIn = NoPosIn
    /\ pOut = NoPos

DemoIdle ==
    /\ frameCount = 0
    /\ lagged = FALSE

ProvIdle == world = 0

CloseIdle ==
    /\ kpc = [k \in Closers |-> "idle"]
    /\ kerr = [k \in Closers |-> "none"]

\* Shapes for fillRectSW (x, y, w, h) and fillCircleSW (cx, cy, radius) with
\* the buffer size (maxW, maxH): positions from left of and above the buffer to
\* right of and below it, sizes from negative to larger than the buffer.
PixCoords == (0 - MaxPix - 1)..(MaxPix + 1)
PixSizes == (0 - 1)..(MaxPix + 2)
RastIn ==
    {[kind |-> "rect", x |-> x, y |-> y, w |-> w, h |-> h, maxW |-> mw, maxH |-> mh] :
        x \in PixCoords, y \in PixCoords, w \in PixSizes, h \in PixSizes,
        mw \in 1..MaxPix, mh \in 1..MaxPix}
    \cup
    {[kind |-> "circle", x |-> x, y |-> y, w |-> r, h |-> r, maxW |-> mw, maxH |-> mh] :
        x \in PixCoords, y \in PixCoords, r \in PixSizes,
        mw \in 1..MaxPix, mh \in 1..MaxPix}
NoRastIn == [kind |-> "none", x |-> 0, y |-> 0, w |-> 0, h |-> 0, maxW |-> 1, maxH |-> 1]
NoRast == [drawn |-> FALSE, pixels |-> {}]

RastIdle ==
    /\ rasIn = NoRastIn
    /\ rasOut = NoRast

ExtIdle == SceneIdle /\ AlphaIdle /\ NewIdle /\ PosIdle /\ DemoIdle /\ ProvIdle /\ CloseIdle /\ RastIdle
AlphaRestIdle == RendererInit /\ SceneIdle /\ NewIdle /\ PosIdle /\ DemoIdle /\ ProvIdle /\ CloseIdle /\ RastIdle
NewRestIdle == RendererInit /\ SceneIdle /\ AlphaIdle /\ PosIdle /\ DemoIdle /\ ProvIdle /\ CloseIdle /\ RastIdle
PosRestIdle == RendererInit /\ SceneIdle /\ AlphaIdle /\ NewIdle /\ DemoIdle /\ ProvIdle /\ CloseIdle /\ RastIdle
RastRestIdle == RendererInit /\ SceneIdle /\ AlphaIdle /\ NewIdle /\ PosIdle /\ DemoIdle /\ ProvIdle /\ CloseIdle

Init == RendererInit /\ ExtIdle

\* ---- ebiten game loop (GPU mode only) ----

EbitenUpdate ==
    /\ useGPU
    /\ ~gReady
    /\ gReady' = TRUE
    /\ UNCHANGED <<extVars, pushed, useGPU, state, tick, closed, frameCh, gpc, gsnap, upd, rvars, svars>>

\* Draw, first half: the RLock section that copies state and tick.
DrawRead ==
    /\ useGPU
    /\ gReady
    /\ gpc = "idle"
    /\ gsnap' = [st |-> state, tk |-> tick]
    /\ gpc' = "drawn"
    /\ UNCHANGED <<extVars, pushed, useGPU, state, tick, closed, frameCh, gReady, upd, rvars, svars>>

\* Draw, second half: draw the scene, capture, non-blocking send to frameCh.
DrawCapture ==
    /\ gpc = "drawn"
    /\ frameCh' = TrySend(frameCh, Drawn(gsnap.st, gsnap.tk), FrameChCap)
    /\ gpc' = "idle"
    /\ gsnap' = NilSnap
    /\ UNCHANGED <<extVars, pushed, useGPU, state, tick, closed, gReady, upd, rvars, svars>>

\* ---- Update ----

\* A caller enters Update(st) and waits for r.mu.
UpdateCall(u, st) ==
    /\ upd[u] = NoCall
    /\ upd' = [upd EXCEPT ![u] = st]
    /\ UNCHANGED <<extVars, pushed, useGPU, state, tick, closed, frameCh, gvars, rvars, svars>>

\* An Update that keeps a state already stored (first writer wins).
UpdateLockedFirstWins(u) ==
    /\ upd[u] # NoCall
    /\ state' = IF state = NilState THEN upd[u] ELSE state
    /\ upd' = [upd EXCEPT ![u] = NoCall]
    /\ pushed' = IF state = NilState THEN Content(upd[u]) ELSE pushed
    /\ UNCHANGED <<extVars, useGPU, tick, closed, frameCh, gvars, rvars, svars>>

\* Update's lock section: r.state = state.
UpdateLocked(u) ==
    /\ upd[u] # NoCall
    /\ state' = upd[u]
    /\ upd' = [upd EXCEPT ![u] = NoCall]
    /\ pushed' = Content(upd[u])
    /\ UNCHANGED <<extVars, useGPU, tick, closed, frameCh, gvars, rvars, svars>>

\* ---- Close ----

Close ==
    /\ closed' = TRUE
    /\ UNCHANGED <<extVars, pushed, useGPU, state, tick, frameCh, gvars, upd, rvars, svars>>

\* ---- Render ----

\* Render's lock section: r.state = state; r.tick++.
RenderLocked(c, st) ==
    /\ rpc[c] \in {"idle", "done"}
    /\ tick < TickCap
    /\ state' = st
    /\ tick' = tick + 1
    /\ rarg' = [rarg EXCEPT ![c] = st]
    /\ rtick' = [rtick EXCEPT ![c] = tick + 1]
    /\ rcl' = [rcl EXCEPT ![c] = closed]
    /\ rres' = [rres EXCEPT ![c] = NilFrame]
    /\ rcalls' = rcalls + 1
    /\ rpc' = [rpc EXCEPT ![c] = "check"]
    /\ pushed' = Content(st)
    /\ UNCHANGED <<extVars, useGPU, closed, frameCh, gvars, upd, svars>>

\* What the unlocked read "if r.closed" of Render can see. A Close that took the
\* lock before Render's lock section is ordered before the read; a Close after
\* it races with the read, which then sees either value.
ClosedSeen(c) ==
    IF rcl[c] THEN {TRUE} ELSE IF closed THEN {TRUE, FALSE} ELSE {FALSE}

\* A Render that never looks at r.closed.
RenderCheckNoClosed(c) ==
    /\ rpc[c] = "check"
    /\ rpc' = [rpc EXCEPT ![c] = IF useGPU THEN "gpu" ELSE "sw"]
    /\ UNCHANGED <<extVars, pushed, useGPU, state, tick, closed, frameCh, gvars, upd,
                   rarg, rtick, rcl, rres, rcalls, svars>>

\* if r.closed { return nil }, then the choice of backend.
RenderCheck(c) ==
    /\ rpc[c] = "check"
    /\ \E seen \in ClosedSeen(c) :
          rpc' = [rpc EXCEPT ![c] =
                     IF seen THEN "done" ELSE IF useGPU THEN "gpu" ELSE "sw"]
    /\ UNCHANGED <<extVars, pushed, useGPU, state, tick, closed, frameCh, gvars, upd,
                   rarg, rtick, rcl, rres, rcalls, svars>>

\* case frame := <-r.frameCh: return frame
RenderGpuRecv(c) ==
    /\ rpc[c] = "gpu"
    /\ frameCh # <<>>
    /\ rres' = [rres EXCEPT ![c] = Head(frameCh)]
    /\ frameCh' = Tail(frameCh)
    /\ rpc' = [rpc EXCEPT ![c] = "done"]
    /\ UNCHANGED <<extVars, pushed, useGPU, state, tick, closed, gvars, upd,
                   rarg, rtick, rcl, rcalls, svars>>

\* A bounded wait whose expiry makes Render return no frame.
RenderGpuTimeoutFails(c) ==
    /\ rpc[c] = "gpu"
    /\ frameCh = <<>>
    /\ rpc' = [rpc EXCEPT ![c] = "done"]
    /\ UNCHANGED <<extVars, pushed, useGPU, state, tick, closed, frameCh, gvars, upd,
                   rarg, rtick, rcl, rres, rcalls, svars>>

\* case <-time.After(100ms): no frame arrived within the bounded wait.
RenderGpuTimeout(c) ==
    /\ rpc[c] = "gpu"
    /\ frameCh = <<>>
    /\ rpc' = [rpc EXCEPT ![c] = "sw"]
    /\ UNCHANGED <<extVars, pushed, useGPU, state, tick, closed, frameCh, gvars, upd,
                   rarg, rtick, rcl, rres, rcalls, svars>>

\* return r.renderFrameSoftware(state)
RenderSoftware(c) ==
    /\ rpc[c] = "sw"
    /\ rres' = [rres EXCEPT ![c] = renderFrameSoftware(rarg[c])]
    /\ rpc' = [rpc EXCEPT ![c] = "done"]
    /\ UNCHANGED <<extVars, pushed, useGPU, state, tick, closed, frameCh, gvars, upd,
                   rarg, rtick, rcl, rcalls, svars>>

\* ---- Frames ----

\* Frames(ctx): makes the channel and starts the goroutine.
FramesCall(s) ==
    /\ spc[s] = "unstarted"
    /\ spc' = [spc EXCEPT ![s] = "select"]
    /\ UNCHANGED <<extVars, pushed, useGPU, state, tick, closed, frameCh, gvars, upd, rvars,
                   cancelled, sstate, stick, sframe, frames, chClosed>>

\* The caller's cancellation signal fires.
Cancel(s) ==
    /\ ~cancelled[s]
    /\ cancelled' = [cancelled EXCEPT ![s] = TRUE]
    /\ UNCHANGED <<extVars, pushed, useGPU, state, tick, closed, frameCh, gvars, upd, rvars,
                   spc, sstate, stick, sframe, frames, chClosed>>

\* A return that leaves the channel open (no deferred close).
StreamReturnNoClose(s) ==
    /\ spc' = [spc EXCEPT ![s] = "stopped"]
    /\ chClosed' = chClosed

\* return, with the deferred close(frames).
StreamReturn(s) ==
    /\ spc' = [spc EXCEPT ![s] = "stopped"]
    /\ chClosed' = [chClosed EXCEPT ![s] = TRUE]

\* case <-ctx.Done(): return
StreamCtxDone(s) ==
    /\ spc[s] = "select"
    /\ cancelled[s]
    /\ StreamReturn(s)
    /\ UNCHANGED <<extVars, pushed, useGPU, state, tick, closed, frameCh, gvars, upd, rvars,
                   cancelled, sstate, stick, sframe, frames>>

\* case <-ticker.C, the renderer closed: return
StreamTickClosed(s) ==
    /\ spc[s] = "select"
    /\ closed
    /\ StreamReturn(s)
    /\ UNCHANGED <<extVars, pushed, useGPU, state, tick, closed, frameCh, gvars, upd, rvars,
                   cancelled, sstate, stick, sframe, frames>>

\* case <-ticker.C, the renderer open: r.tick++; state := r.state.  The tick
\* is explored up to cap.
StreamTickUpTo(s, cap) ==
    /\ spc[s] = "select"
    /\ ~closed
    /\ tick < cap
    /\ tick' = tick + 1
    /\ sstate' = [sstate EXCEPT ![s] = state]
    /\ stick' = [stick EXCEPT ![s] = tick + 1]
    /\ spc' = [spc EXCEPT ![s] = IF useGPU THEN "gpu" ELSE "sw"]
    /\ UNCHANGED <<extVars, pushed, useGPU, state, closed, frameCh, gvars, upd, rvars,
                   cancelled, sframe, frames, chClosed>>

StreamTick(s) == StreamTickUpTo(s, TickCap)

\* select { case frame = <-r.frameCh: ... default: ... }, a frame is waiting
StreamGpuRecv(s) ==
    /\ spc[s] = "gpu"
    /\ frameCh # <<>>
    /\ sframe' = [sframe EXCEPT ![s] = Head(frameCh)]
    /\ frameCh' = Tail(frameCh)
    /\ spc' = [spc EXCEPT ![s] = "publish"]
    /\ UNCHANGED <<extVars, pushed, useGPU, state, tick, closed, gvars, upd, rvars,
                   cancelled, sstate, stick, frames, chClosed>>

\* the default branch: no frame is waiting
StreamGpuEmpty(s) ==
    /\ spc[s] = "gpu"
    /\ frameCh = <<>>
    /\ spc' = [spc EXCEPT ![s] = "sw"]
    /\ UNCHANGED <<extVars, pushed, useGPU, state, tick, closed, frameCh, gvars, upd, rvars,
                   cancelled, sstate, stick, sframe, frames, chClosed>>

\* frame = r.renderFrameSoftware(state)
StreamSoftware(s) ==
    /\ spc[s] = "sw"
    /\ sframe' = [sframe EXCEPT ![s] = renderFrameSoftware(sstate[s])]
    /\ spc' = [spc EXCEPT ![s] = "publish"]
    /\ UNCHANGED <<extVars, pushed, useGPU, state, tick, closed, frameCh, gvars, upd, rvars,
                   cancelled, sstate, stick, frames, chClosed>>

\* A publish that queues the frame whatever the channel holds.
StreamPublishAlways(s) ==
    /\ spc[s] = "publish"
    /\ frames' = [frames EXCEPT ![s] = Append(frames[s], sframe[s])]
    /\ spc' = [spc EXCEPT ![s] = "select"]
    /\ sstate' = [sstate EXCEPT ![s] = NilState]
    /\ stick' = [stick EXCEPT ![s] = 0]
    /\ sframe' = [sframe EXCEPT ![s] = NilFrame]
    /\ UNCHANGED <<extVars, pushed, useGPU, state, tick, closed, frameCh, gvars, upd, rvars,
                   cancelled, chClosed>>

\* A publish whose send is never ready: every frame is dropped.
StreamPublishNever(s) ==
    /\ spc[s] = "publish"
    /\ spc' = [spc EXCEPT ![s] = "select"]
    /\ sstate' = [sstate EXCEPT ![s] = NilState]
    /\ stick' = [stick EXCEPT ![s] = 0]
    /\ sframe' = [sframe EXCEPT ![s] = NilFrame]
    /\ UNCHANGED <<extVars, pushed, useGPU, state, tick, closed, frameCh, gvars, upd, rvars,
                   cancelled, frames, chClosed>>

\* select { case frames <- frame: default: }, then back to the outer select
StreamPublish(s) ==
    /\ spc[s] = "publish"
    /\ frames' = [frames EXCEPT ![s] = TrySend(frames[s], sframe[s], FramesCap)]
    /\ spc' = [spc EXCEPT ![s] = "select"]
    /\ sstate' = [sstate EXCEPT ![s] = NilState]
    /\ stick' = [stick EXCEPT ![s] = 0]
    /\ sframe' = [sframe EXCEPT ![s] = NilFrame]
    /\ UNCHANGED <<extVars, pushed, useGPU, state, tick, closed, frameCh, gvars, upd, rvars,
                   cancelled, chClosed>>

\* The consumer receives the oldest queued frame (for frame := range frames).
Recv(s) ==
    /\ frames[s] # <<>>
    /\ frames' = [frames EXCEPT ![s] = Tail(frames[s])]
    /\ UNCHANGED <<extVars, pushed, useGPU, state, tick, closed, frameCh, gvars, upd, rvars,
                   spc, cancelled, sstate, stick, sframe, chClosed>>

\* ---- the specification ----

StreamStep(s) ==
    \/ StreamTickClosed(s)
    \/ StreamTick(s)
    \/ StreamGpuRecv(s)
    \/ StreamGpuEmpty(s)
    \/ StreamSoftware(s)
    \/ StreamPublish(s)

Next ==
    \/ EbitenUpdate
    \/ DrawRead
    \/ DrawCapture
    \/ \E u \in MainUpdaters, st \in States : UpdateCall(u, st)
    \/ \E u \in MainUpdaters : UpdateLocked(u)
    \/ Close
    \/ \E c \in Callers, st \in States : RenderLocked(c, st)
    \/ \E c \in Callers : RenderCheck(c)
    \/ \E c \in Callers : RenderGpuRecv(c)
    \/ \E c \in Callers : RenderGpuTimeout(c)
    \/ \E c \in Callers : RenderSoftware(c)
    \/ \E s \in Streams : FramesCall(s)
    \/ \E s \in Streams : Cancel(s)
    \/ \E s \in Streams : StreamCtxDone(s)
    \/ \E s \in Streams : StreamStep(s)
    \/ \E s \in Streams : Recv(s)

Spec == Init /\ [][Next]_vars

\* The fairness of the Frames goroutine: it is scheduled and its ticker keeps
\* firing (weak fairness of its steps), and a select on which ctx.Done() is
\* ready again and again eventually takes that case (Go picks among the ready
\* cases at random).
Fairness ==
    \A s \in Streams : WF_vars(StreamStep(s)) /\ SF_vars(StreamCtxDone(s))

FairSpec == Spec /\ Fairness

\* The steps of a Render call after its critical section.
RenderStep(c) ==
    \/ RenderCheck(c)
    \/ RenderGpuRecv(c)
    \/ RenderGpuTimeout(c)
    \/ RenderSoftware(c)

\* The goroutine that called Render keeps running, and the timer of the
\* bounded wait fires.
RenderFairness == \A c \in Callers : WF_vars(RenderStep(c))

\* The accelerated backend enabled; whether ebiten ever draws is left open.
GpuInit == Init /\ useGPU

GpuFairSpec == GpuInit /\ [][Next]_vars /\ Fairness /\ RenderFairness

\* Software mode with two concurrent Update callers.
UpdNext ==
    \/ \E u \in Updaters, st \in States : UpdateCall(u, st)
    \/ \E u \in Updaters : UpdateLocked(u)
    \/ Close
    \/ \E c \in Callers, st \in States : RenderLocked(c, st)
    \/ \E c \in Callers : RenderCheck(c)
    \/ \E c \in Callers : RenderSoftware(c)
    \/ \E s \in Streams : FramesCall(s)
    \/ \E s \in Streams : StreamTickClosed(s)
    \/ \E s \in Streams : StreamTick(s)
    \/ \E s \in Streams : StreamSoftware(s)
    \/ \E s \in Streams : StreamPublish(s)
    \/ \E s \in Streams : Recv(s)

UpdInit == Init /\ ~useGPU

UpdSpec == UpdInit /\ [][UpdNext]_vars

\* One Frames stream beside the ebiten game loop, nothing else calling the
\* Renderer, followed for MaxOrderTick ticks in either mode.
OrderNext ==
    \/ EbitenUpdate
    \/ DrawRead
    \/ DrawCapture
    \/ \E s \in Streams : FramesCall(s)
    \/ \E s \in Streams : StreamTickUpTo(s, MaxOrderTick)
    \/ \E s \in Streams : StreamGpuRecv(s)
    \/ \E s \in Streams : StreamGpuEmpty(s)
    \/ \E s \in Streams : StreamSoftware(s)
    \/ \E s \in Streams : StreamPublish(s)
    \/ \E s \in Streams : Recv(s)

OrderSpec == Init /\ [][OrderNext]_vars

\* ---- the Scene (scene graph with Z-sorted sprites) ----

\* One insertion step of sort.Slice on a short slice: e moves towards the
\* front while it is less than its predecessor.
RECURSIVE InsertByZ(_, _)
InsertByZ(s, e) ==
    IF s = <<>> THEN <<e>>
    ELSE IF e.z < s[Len(s)].z
         THEN Append(InsertByZ(SubSeq(s, 1, Len(s) - 1), e), s[Len(s)])
         ELSE Append(s, e)

\* sort.Slice(s.sprites, func(i, j) { return sprites[i].Z < sprites[j].Z }).
RECURSIVE SortByZ(_)
SortByZ(s) ==
    IF s = <<>> THEN <<>>
    ELSE InsertByZ(SortByZ(SubSeq(s, 1, Len(s) - 1)), s[Len(s)])

LandSprite(land) == [id |-> land.id, x |-> land.x, y |-> land.y]

ProcSprite(proc) ==
    [id |-> proc.id, x |-> proc.x, y |-> proc.y, z |-> proc.y + ZBias,
     progress |-> proc.progress]

\* Scene.UpdateFromState without its trailing sort.
UpdateFromStateNoSort(w) ==
    /\ scLast' = w
    /\ scSince' = 0
    /\ IF w.kind = "nil"
       THEN UNCHANGED <<scLands, scSprites>>
       ELSE /\ scLands' = [i \in 1..Len(w.lands) |-> LandSprite(w.lands[i])]
            /\ scSprites' = [i \in 1..Len(w.procs) |-> ProcSprite(w.procs[i])]
    /\ UNCHANGED <<scTick, nonSceneVars>>

\* An ingest that lets a sprite already in the Scene keep the progress it has
\* accumulated, and takes the provider's progress only for a new id.
UpdateFromStateKeepProgress(w) ==
    /\ scLast' = w
    /\ scSince' = 0
    /\ IF w.kind = "nil"
       THEN UNCHANGED <<scLands, scSprites>>
       ELSE /\ scLands' = [i \in 1..Len(w.lands) |-> LandSprite(w.lands[i])]
            /\ scSprites' =
                   SortByZ([i \in 1..Len(w.procs) |->
                       IF \E j \in 1..Len(scSprites) :
                              scSprites[j].id = w.procs[i].id
                       THEN [ProcSprite(w.procs[i]) EXCEPT !.progress =
                                scSprites[CHOOSE j \in 1..Len(scSprites) :
                                    scSprites[j].id = w.procs[i].id].progress]
                       ELSE ProcSprite(w.procs[i])])
    /\ UNCHANGED <<scTick, nonSceneVars>>

\* Scene.UpdateFromState: a null state returns at once; otherwise both
\* collections are rebuilt and the sprites are sorted by Z.
UpdateFromState(w) ==
    /\ scLast' = w
    /\ scSince' = 0
    /\ IF w.kind = "nil"
       THEN UNCHANGED <<scLands, scSprites>>
       ELSE /\ scLands' = [i \in 1..Len(w.lands) |-> LandSprite(w.lands[i])]
            /\ scSprites' =
                   SortByZ([i \in 1..Len(w.procs) |-> ProcSprite(w.procs[i])])
    /\ UNCHANGED <<scTick, nonSceneVars>>

\* A progress advance that carries the excess over 1.0 into the next cycle.
AdvanceCarry(p) ==
    IF p + ProgressStep > ProgressOne THEN p + ProgressStep - ProgressOne
    ELSE p + ProgressStep

\* Progress += 0.02; if Progress > 1.0 { Progress = 0.0 }.
Advance(p) ==
    IF p + ProgressStep > ProgressOne THEN 0 ELSE p + ProgressStep

\* Scene.Update: one animation tick.
SceneUpdate ==
    /\ scTick < MaxSceneTick
    /\ scTick' = scTick + 1
    /\ scSince' = scSince + 1
    /\ scSprites' = [i \in 1..Len(scSprites) |->
                        [scSprites[i] EXCEPT !.progress = Advance(@)]]
    /\ UNCHANGED <<scLands, scLast, nonSceneVars>>

SceneNext ==
    \/ \E w \in Worlds : UpdateFromState(w)
    \/ SceneUpdate

SceneSpec == Init /\ [][SceneNext]_vars

\* The Scene fed with processes of any progress, in range or not.
AnyProgressNext ==
    \/ \E w \in AnyProgressWorlds : UpdateFromState(w)
    \/ SceneUpdate

AnyProgressSpec == Init /\ [][AnyProgressNext]_vars

\* ---- the pulse of a land tile (both backends compute it alike) ----

\* pulse := float64(tick%60) / 60.0; if pulse > 0.5 { pulse = 1.0 - pulse },
\* as a number of sixtieths.
Pulse(t) ==
    LET p == t % PulsePeriod
    IN  IF 2 * p > PulsePeriod THEN PulsePeriod - p ELSE p

\* landColor.A = uint8(200 + pulse*55): the conversion truncates.
landAlpha(t) == (AlphaBase + (Pulse(t) * AlphaSpan) \div PulsePeriod) % 256

AlphaInit ==
    /\ AlphaRestIdle
    /\ aTick \in 0..MaxAlphaTick
    /\ aOut = NoAlpha

\* A land tile is drawn at tick aTick.
DrawLand ==
    /\ aOut = NoAlpha
    /\ aOut' = landAlpha(aTick)
    /\ UNCHANGED <<aTick, nonAlphaVars>>

AlphaNext == DrawLand

AlphaSpec == AlphaInit /\ [][AlphaNext]_vars

\* ---- the constructor ----

\* The defaults New applies: a field is replaced only when it is zero.
ApplyDefaults(o) ==
    [width |-> IF o.width = 0 THEN DefaultWidth ELSE o.width,
     height |-> IF o.height = 0 THEN DefaultHeight ELSE o.height,
     frameRate |-> IF o.frameRate = 0 THEN DefaultFrameRate ELSE o.frameRate,
     scale |-> IF o.scale = 0 THEN DefaultScale ELSE o.scale]

NewInit ==
    /\ NewRestIdle
    /\ nIn \in OptionsIn
    /\ nOut = NoOptions
    /\ nErr = "pending"

\* New(opts): returns the Renderer and a nil error.
New ==
    /\ nErr = "pending"
    /\ nOut' = ApplyDefaults(nIn)
    /\ nErr' = "nil"
    /\ UNCHANGED <<nIn, nonNewVars>>

NewNext == New

NewSpec == NewInit /\ [][NewNext]_vars

\* ---- where the two backends put a land and a process ----

\* Go's conversion int(f) of a float given as n/d: truncation towards zero.
Trunc(n, d) == IF n >= 0 THEN n \div d ELSE 0 - ((0 - n) \div d)

\* tileSize := int(64 * Scale)
tileSize(scale) == Trunc(TileBase * scale, Quarter)

\* drawScene: x := float32(startX + int(land.X*float64(tileSize)))
landOriginGpu(c, ts) == (GridOrigin + Trunc(c * ts, Quarter)) * Quarter

\* renderFrameSoftware: x := startX + int(land.X)*tileSize
landOriginSw(c, ts) == (GridOrigin + Trunc(c, Quarter) * ts) * Quarter

\* drawScene: px := float32(startX+int(proc.X)*tileSize) + float32(tileSize/2)
procCentreGpu(c, ts) ==
    (GridOrigin + Trunc(c, Quarter) * ts) * Quarter + Trunc(ts, 2) * Quarter

\* renderFrameSoftware: px := startX + int(proc.X)*tileSize + tileSize/2
procCentreSw(c, ts) == (GridOrigin + Trunc(c, Quarter) * ts + Trunc(ts, 2)) * Quarter

\* drawScene: py += float32(bounce)
bounceGpu(b) == b

\* renderFrameSoftware: py += int(bounce)
bounceSw(b) == Trunc(b, Quarter) * Quarter

PosInit ==
    /\ PosRestIdle
    /\ pIn \in PosIn
    /\ pOut = NoPos

\* Both backends draw a land and a process that sit at the grid position pIn.
DrawBoth ==
    /\ ~pOut.drawn
    /\ LET ts == tileSize(pIn.scale)
       IN  pOut' = [drawn |-> TRUE,
                    gpuLandX |-> landOriginGpu(pIn.x, ts),
                    gpuLandY |-> landOriginGpu(pIn.y, ts),
                    swLandX |-> landOriginSw(pIn.x, ts),
                    swLandY |-> landOriginSw(pIn.y, ts),
                    gpuProcX |-> procCentreGpu(pIn.x, ts),
                    gpuProcY |-> procCentreGpu(pIn.y, ts) + bounceGpu(pIn.bounce),
                    swProcX |-> procCentreSw(pIn.x, ts),
                    swProcY |-> procCentreSw(pIn.y, ts) + bounceSw(pIn.bounce)]
    /\ UNCHANGED <<pIn, nonPosVars>>

PosNext == DrawBoth

PosSpec == PosInit /\ [][PosNext]_vars

\* ---- the software rasterizer helpers ----

\* A clip that tests only the far edges of the buffer.
ClipFarOnly(px, py, maxW, maxH) == px < maxW /\ py < maxH

\* if px >= 0 && px < maxW && py >= 0 && py < maxH { img.SetRGBA(px, py, c) }
Clip(px, py, maxW, maxH) == px >= 0 /\ px < maxW /\ py >= 0 /\ py < maxH

\* fillRectSW: dy runs over 0..h-1, dx over 0..w-1, the pixel is (x+dx, y+dy).
fillRectSW(x, y, w, h, maxW, maxH) ==
    {p \in {<<x + dx, y + dy>> : dx \in 0..(w - 1), dy \in 0..(h - 1)} :
        Clip(p[1], p[2], maxW, maxH)}

\* fillCircleSW: y and x run over -radius..radius, the offsets with
\* x*x + y*y <= radius*radius are kept, the pixel is (cx+x, cy+y).
fillCircleSW(cx, cy, radius, maxW, maxH) ==
    {p \in {<<cx + o[1], cy + o[2]>> :
                o \in {q \in ((0 - radius)..radius) \X ((0 - radius)..radius) :
                          q[1] * q[1] + q[2] * q[2] <= radius * radius}} :
        Clip(p[1], p[2], maxW, maxH)}

RastInit ==
    /\ RastRestIdle
    /\ rasIn \in RastIn
    /\ rasOut = NoRast

FillRect ==
    /\ rasIn.kind = "rect"
    /\ ~rasOut.drawn
    /\ rasOut' = [drawn |-> TRUE,
                  pixels |-> fillRectSW(rasIn.x, rasIn.y, rasIn.w, rasIn.h,
                                        rasIn.maxW, rasIn.maxH)]
    /\ UNCHANGED <<rasIn, nonRastVars>>

FillCircle ==
    /\ rasIn.kind = "circle"
    /\ ~rasOut.drawn
    /\ rasOut' = [drawn |-> TRUE,
                  pixels |-> fillCircleSW(rasIn.x, rasIn.y, rasIn.w,
                                          rasIn.maxW, rasIn.maxH)]
    /\ UNCHANGED <<rasIn, nonRastVars>>

RastNext == FillRect \/ FillCircle

RastSpec == RastInit /\ [][RastNext]_vars

\* ---- the demo program: one stream, one counting consumer ----

\* for frame := range frames { frameCount++ ... }: the consumer receives the
\* oldest queued frame.  It is late when the stream has begun another tick
\* since that frame was published.
RecvCounted(s) ==
    /\ frames[s] # <<>>
    /\ frames' = [frames EXCEPT ![s] = Tail(frames[s])]
    /\ frameCount' = frameCount + 1
    /\ lagged' = (lagged \/ Len(frames[s]) > 1 \/ spc[s] \in {"gpu", "sw", "publish"})
    /\ UNCHANGED <<demoRestVars, pushed, useGPU, state, tick, closed, frameCh, gvars, upd,
                   rvars, spc, cancelled, sstate, stick, sframe, chClosed>>

\* The software renderer of the demo, its updater, its stream and its consumer.
DemoNext ==
    \/ \E u \in MainUpdaters, st \in States : UpdateCall(u, st)
    \/ \E u \in MainUpdaters : UpdateLocked(u)
    \/ \E s \in Streams : FramesCall(s)
    \/ \E s \in Streams : Cancel(s)
    \/ \E s \in Streams : StreamCtxDone(s)
    \/ \E s \in Streams : StreamTick(s)
    \/ \E s \in Streams : StreamSoftware(s)
    \/ \E s \in Streams : StreamPublish(s)
    \/ \E s \in Streams : RecvCounted(s)

DemoInit == Init /\ ~useGPU

DemoSpec == DemoInit /\ [][DemoNext]_vars

\* ---- a renderer whose state provider changes between pushes ----

\* The provider handed to Update and Render: a value that is not nil.
Provider == CHOOSE st \in States : st # NilState

\* MockState.Randomize: the provider changes what it returns.
Randomize ==
    /\ world < MaxVersion
    /\ world' = world + 1
    /\ UNCHANGED nonProvVars

\* The software renderer, fed one provider that changes on its own.
ProviderNext ==
    \/ \E u \in MainUpdaters : UpdateCall(u, Provider)
    \/ \E u \in MainUpdaters : UpdateLocked(u)
    \/ Randomize
    \/ \E c \in Callers : RenderLocked(c, Provider)
    \/ \E c \in Callers : RenderCheck(c)
    \/ \E c \in Callers : RenderSoftware(c)
    \/ \E s \in Streams : FramesCall(s)
    \/ \E s \in Streams : StreamTick(s)
    \/ \E s \in Streams : StreamSoftware(s)
    \/ \E s \in Streams : StreamPublish(s)
    \/ \E s \in Streams : Recv(s)

ProviderInit == Init /\ ~useGPU

ProviderSpec == ProviderInit /\ [][ProviderNext]_vars

\* ---- a renderer closed by several callers ----

\* A caller enters Close and waits for r.mu.
CloseCall(k) ==
    /\ kpc[k] \in {"idle", "returned"}
    /\ kpc' = [kpc EXCEPT ![k] = "waiting"]
    /\ UNCHANGED <<kerr, nonCloseVars>>

\* A Close that reports an error on a renderer that is closed already.
CloseLockedOnce(k) ==
    /\ kpc[k] = "waiting"
    /\ closed' = TRUE
    /\ kerr' = [kerr EXCEPT ![k] = IF closed THEN "closed" ELSE "nil"]
    /\ kpc' = [kpc EXCEPT ![k] = "returned"]
    /\ UNCHANGED <<closeRestVars, pushed, useGPU, state, tick, frameCh, gvars, upd,
                   rvars, svars>>

\* Close's lock section: r.closed = true; return nil.
CloseLocked(k) ==
    /\ kpc[k] = "waiting"
    /\ closed' = TRUE
    /\ kerr' = [kerr EXCEPT ![k] = "nil"]
    /\ kpc' = [kpc EXCEPT ![k] = "returned"]
    /\ UNCHANGED <<closeRestVars, pushed, useGPU, state, tick, frameCh, gvars, upd,
                   rvars, svars>>

\* The software renderer at work while two callers close it, each as often
\* as it likes.
CloseNext ==
    \/ \E k \in Closers : CloseCall(k)
    \/ \E k \in Closers : CloseLocked(k)
    \/ \E u \in MainUpdaters, st \in States : UpdateCall(u, st)
    \/ \E u \in MainUpdaters : UpdateLocked(u)
    \/ \E c \in Callers, st \in States : RenderLocked(c, st)
    \/ \E c \in Callers : RenderCheck(c)
    \/ \E c \in Callers : RenderSoftware(c)
    \/ \E s \in Streams : FramesCall(s)
    \/ \E s \in Streams : StreamTickClosed(s)
    \/ \E s \in Streams : StreamTick(s)
    \/ \E s \in Streams : StreamSoftware(s)
    \/ \E s \in Streams : StreamPublish(s)
    \/ \E s \in Streams : Recv(s)

CloseInit == Init /\ ~useGPU

CloseSpec == CloseInit /\ [][CloseNext]_vars

\* ---- the claims ----

\* C1: publishing a frame never blocks the producer loop: the output channel
\* never holds more than FramesCap frames, the publish step is always enabled
\* when the loop reaches it, and it appends the frame when there is room and
\* otherwise leaves the queued frames as they are; either way the loop goes
\* back to its select.
C1_PublishNeverBlocks ==
    /\ [](\A s \in Streams :
            /\ Len(frames[s]) <= FramesCap
            /\ spc[s] = "publish" => ENABLED StreamPublish(s))
    /\ [][\A s \in Streams :
            (spc[s] = "publish" /\ spc'[s] # "publish") =>
               /\ spc'[s] = "select"
               /\ frames'[s] = IF Len(frames[s]) = FramesCap
                               THEN frames[s]
                               ELSE Append(frames[s], sframe[s])]_vars

\* Software mode, no Render call: three ticks were published with no receive
\* between them, and the channel holds the frames of ticks 1 and 2 only.
C1_Witness ==
    \E s \in Streams :
        /\ ~useGPU /\ rcalls = 0 /\ tick = 3
        /\ spc[s] = "select"
        /\ Len(frames[s]) = FramesCap
        /\ frames[s][1].tk = 1 /\ frames[s][2].tk = 2

\* C2: once a started Frames stream is cancelled, or the renderer is closed,
\* the goroutine eventually returns and the output channel is closed.
C2_StreamEventuallyCloses ==
    \A s \in Streams :
        (spc[s] # "unstarted" /\ (cancelled[s] \/ closed))
            ~> (spc[s] = "stopped" /\ chClosed[s])

\* The stream stopped and closed its channel while frames were still queued.
C2_Witness ==
    \E s \in Streams :
        /\ chClosed[s] /\ frames[s] # <<>>
        /\ cancelled[s] /\ ~closed

\* C3: no frame is received from the stream once the cancel has fired.
C3_NoFrameAfterCancel ==
    [][\A s \in Streams :
          cancelled[s] => Len(frames'[s]) >= Len(frames[s])]_vars

\* C4: once Close has returned no frame is published on any stream.
C4_NoPublishAfterClose ==
    [][\A s \in Streams :
          closed => Len(frames'[s]) <= Len(frames[s])]_vars

\* C5: every frame produced by Render or by a Frames tick is drawn from the
\* state and the tick of the lock section that advanced the tick for it.
C5_FrameFromOneCriticalSection ==
    /\ \A s \in Streams :
          spc[s] = "publish" =>
             (sframe[s].st = sstate[s] /\ sframe[s].tk = stick[s])
    /\ \A c \in Callers :
          (rpc[c] = "done" /\ rres[c] # NilFrame) =>
             (rres[c].st = rarg[c] /\ rres[c].tk = rtick[c])

\* C6: the frame Render returns was captured after the call advanced the tick:
\* its tick is not older than the tick the call advanced to.
C6_RenderFrameIsFresh ==
    \A c \in Callers :
        (rpc[c] = "done" /\ rres[c] # NilFrame) => rres[c].tk >= rtick[c]

\* C7: a Render call made after Close returned yields the nil image, and the
\* nil image is returned by no call that saw the renderer open.
C7_RenderOnClosedFails ==
    \A c \in Callers :
        rpc[c] = "done" =>
            /\ rcl[c] => rres[c] = NilFrame
            /\ rres[c] = NilFrame => closed

\* A Render call that started on a closed renderer has returned.
C7_Witness ==
    \E c \in Callers : rpc[c] = "done" /\ rcl[c] /\ rres[c] = NilFrame

\* C8: a Render call on a closed renderer, which fails, leaves the stored
\* state and the tick as they were.
C8_FailedRenderAppliesNothing ==
    [][\A c \in Callers :
          (closed /\ rpc[c] # "check" /\ rpc'[c] = "check") =>
              (state' = state /\ tick' = tick)]_vars

\* C9: when an Update call takes the lock the stored state becomes its
\* argument, whatever other Update calls are waiting, and neither the tick,
\* the closed flag nor any channel changes; entering Update changes none of
\* them either.
C9_UpdateLastWriterWins ==
    [][\A u \in Updaters :
          /\ (upd[u] # NoCall /\ upd'[u] = NoCall) =>
                /\ state' = upd[u]
                /\ tick' = tick /\ closed' = closed
                /\ frames' = frames /\ frameCh' = frameCh
          /\ (upd[u] = NoCall /\ upd'[u] # NoCall) =>
                /\ state' = state
                /\ tick' = tick /\ closed' = closed
                /\ frames' = frames /\ frameCh' = frameCh]_vars

\* An Update call has stored its provider while another call, with the nil
\* state, waits for the lock.
C9_Witness ==
    /\ rcalls = 0
    /\ upd["u1"] = NilState /\ upd["u2"] = NoCall
    /\ state = "sA"

\* C10: with no Frames stream started, after n Render calls the tick is n and
\* the frame of the n-th call, drawn from a non-nil state, has its indicator at
\* 10 + (n mod 60) * 2.
C10_RenderTickAndIndicator ==
    (\A s \in Streams : spc[s] = "unstarted") =>
        /\ tick = rcalls
        /\ \A c \in Callers :
              (rpc[c] = "done" /\ rres[c] # NilFrame /\ rarg[c] # NilState) =>
                  Indicator(rres[c]) = frameX(rcalls)

C12_FiveTicksEndBelowIncrement ==
    (scLast.kind = "state" /\ scSince = 5) =>
        \A i \in 1..Len(scSprites) :
            scLast.procs[scSprites[i].id].progress = 95 =>
                (0 <= scSprites[i].progress /\ scSprites[i].progress < ProgressStep)

\* C12 (amended): a sprite ingested with progress 0.95 crosses 1.0 on the
\* third Scene tick, which resets it to 0, a value in [0, 0.02); the two
\* ticks that follow advance it to 0.04, where it stands after 5 ticks.
C12_ThirdTickResetsFifthAtTwoSteps ==
    scLast.kind = "state" =>
        \A i \in 1..Len(scSprites) :
            scLast.procs[scSprites[i].id].progress = 95 =>
                /\ scSince = 1 => scSprites[i].progress = 97
                /\ scSince = 2 => scSprites[i].progress = 99
                /\ scSince = 3 => scSprites[i].progress = 0
                /\ scSince = 4 => scSprites[i].progress = ProgressStep
                /\ scSince = 5 => scSprites[i].progress = 2 * ProgressStep

\* A sprite ingested with progress 0.95 has been advanced by 5 ticks.
C12_Witness ==
    /\ scLast.kind = "state"
    /\ scSince = 5
    /\ \E i \in 1..Len(scSprites) : scLast.procs[scSprites[i].id].progress = 95

\* C14: after UpdateFromState with a null state, or with a state that has no
\* lands and no processes, the Scene holds no lands and no sprites.
C14_NullOrEmptyStateEmptiesScene ==
    (scSince = 0 /\ (scLast.kind = "nil" \/
                     (scLast.kind = "state" /\ scLast.lands = <<>>
                                            /\ scLast.procs = <<>>))) =>
        (scLands = <<>> /\ scSprites = <<>>)

\* C13: the alpha of a land tile is a triangle wave of period 60 between about
\* 200 and about 255: at every tick t with t mod 60 = 30 it is at its maximum,
\* about 255, and at every tick with t mod 60 = 0 at its minimum, about 200.
C13_AlphaPeaksNear255AtTick30 ==
    aOut # NoAlpha =>
        /\ aOut = landAlpha(aTick % PulsePeriod)
        /\ aTick % PulsePeriod = 30 =>
               /\ \A t \in 0..MaxAlphaTick : landAlpha(t) <= aOut
               /\ aOut >= 250
        /\ aTick % PulsePeriod = 0 =>
               /\ \A t \in 0..MaxAlphaTick : landAlpha(t) >= aOut
               /\ aOut = AlphaBase

\* C15: New rejects no configuration and corrects every zero or negative
\* width, height and frame rate to the defaults 1920, 1080 and 30, so the
\* renderer it returns has strictly positive dimensions and frame rate.
C15_NewCorrectsNonPositiveOptions ==
    nErr # "pending" =>
        /\ nErr = "nil"
        /\ nIn.width <= 0 => nOut.width = DefaultWidth
        /\ nIn.height <= 0 => nOut.height = DefaultHeight
        /\ nIn.frameRate <= 0 => nOut.frameRate = DefaultFrameRate
        /\ nOut.width > 0 /\ nOut.height > 0 /\ nOut.frameRate > 0

\* C16: with the accelerated backend enabled, every Render call ends, and on
\* an open renderer it ends with a frame, also when ebiten delivers nothing (the
\* bounded wait then expires and the software frame is returned); every tick
\* of a Frames stream goes on at once, whether a frame of ebiten is waiting or
\* not, and reaches its publish step with a frame.
C16_GpuSilenceNeverStallsOrFails ==
    /\ [](\A c \in Callers :
             (rpc[c] = "done" /\ rcalls > 0 /\ ~closed) => rres[c] # NilFrame)
    /\ \A c \in Callers : (rpc[c] \in {"check", "gpu", "sw"}) ~> (rpc[c] = "done")
    /\ [](\A s \in Streams :
             /\ spc[s] = "gpu" => ENABLED (StreamGpuRecv(s) \/ StreamGpuEmpty(s))
             /\ spc[s] = "publish" => sframe[s] # NilFrame)
    /\ \A s \in Streams : (spc[s] \in {"gpu", "sw"}) ~> (spc[s] = "publish")

\* ebiten never became ready and delivered nothing, and a Render call on the
\* open renderer has returned the software frame of its own tick.
C16_Witness ==
    /\ useGPU /\ ~gReady /\ frameCh = <<>> /\ ~closed
    /\ \E c \in Callers :
          /\ rpc[c] = "done" /\ rcalls > 0
          /\ rres[c].st = rarg[c] /\ rres[c].tk = tick

\* C17: for the same grid position, scale and tick, integral or not, the two
\* backends put the origin of a land's rectangle at the same pixel and the
\* centre of a process's circle at the same place up to less than one pixel.
C17_BackendsPlaceShapesAlike ==
    pOut.drawn =>
        /\ pOut.gpuLandX = pOut.swLandX
        /\ pOut.gpuLandY = pOut.swLandY
        /\ pOut.gpuProcX - pOut.swProcX \in (1 - Quarter)..(Quarter - 1)
        /\ pOut.gpuProcY - pOut.swProcY \in (1 - Quarter)..(Quarter - 1)

\* C18 (as stated): a stream run for N ticks publishes at most one frame per
\* tick; once it has returned and the consumer has received all that was
\* queued, the consumer has exactly N frames when it received each frame
\* before the next tick, and strictly fewer than N when it did not keep up.
C18_SlowConsumerGetsFewer ==
    \A s \in Streams :
        /\ frameCount + Len(frames[s]) <= tick
        /\ ((spc[s] = "stopped" /\ frames[s] = <<>>) /\ ~lagged) => frameCount = tick
        /\ ((spc[s] = "stopped" /\ frames[s] = <<>>) /\ lagged) => frameCount < tick

\* C18 (amended): a stream run for N ticks publishes at most one frame per
\* tick and never holds more than FramesCap frames; the consumer gets exactly
\* N frames when it received each frame before the next tick; it gets fewer
\* than N only if it fell behind, and then still at least FramesCap frames,
\* and a consumer that fell behind can still get all N.
C18_OnlyFullBufferDrops ==
    \A s \in Streams :
        /\ frameCount + Len(frames[s]) <= tick
        /\ Len(frames[s]) <= FramesCap
        /\ ((spc[s] = "stopped" /\ frames[s] = <<>>) /\ ~lagged) => frameCount = tick
        /\ ((spc[s] = "stopped" /\ frames[s] = <<>>) /\ frameCount < tick) => (lagged /\ frameCount >= FramesCap)

\* The stream ran for more ticks than the channel holds, the consumer fell
\* behind, and a frame was dropped.
C18_Witness ==
    \E s \in Streams : (spc[s] = "stopped" /\ frames[s] = <<>>) /\ lagged /\ frameCount < tick

\* C19: a frame drawn from the stored state shows the provider as it was when
\* that state was last pushed by Update or Render: what the provider changed
\* since, without a new push, is not in the frame.
C19_FramesShowThePushedSnapshot ==
    [][/\ \A s \in Streams :
             (spc[s] = "sw" /\ spc'[s] = "publish" /\ sstate[s] = state) =>
                 sframe'[s].content = pushed
       /\ \A c \in Callers :
             (rpc[c] = "sw" /\ rpc'[c] = "done" /\ rarg[c] = state) =>
                 rres'[c].content = pushed]_vars

\* C20: every Close, the first and each later one, whether the callers take
\* turns or wait for the lock together, returns nil and leaves the renderer
\* closed with the tick and the stored state as they were; a Close of a
\* closed renderer changes nothing of the renderer at all.
C20_CloseIdempotent ==
    [][\A k \in Closers :
           (kpc[k] = "waiting" /\ kpc'[k] = "returned") =>
               /\ closed'
               /\ kerr'[k] = "nil"
               /\ UNCHANGED <<state, tick, frameCh, gvars, upd, rvars, svars>>
               /\ closed => coreVars' = coreVars]_vars

\* Two Close calls, one of each caller, have returned nil on a renderer that
\* had a state and a tick above zero.
C20_Witness ==
    /\ \A k \in Closers : kpc[k] = "returned" /\ kerr[k] = "nil"
    /\ closed /\ tick > 0 /\ state # NilState

\* C21: every sprite's progress lies in [0, 1] after UpdateFromState, whatever
\* progress the ingested process carried, and after every tick that follows.
C21_ProgressWithinUnitInterval ==
    \A i \in 1..Len(scSprites) :
        0 <= scSprites[i].progress /\ scSprites[i].progress <= ProgressOne

\* C22: right after an UpdateFromState with a non-null state the Scene holds
\* exactly one land sprite per land and exactly one sprite per process of that
\* state and nothing else, each sprite carries the progress its process
\* reported (not one accumulated by earlier ticks), and the ingest leaves the
\* Scene's tick counter as it was.
C22_IngestRebuildsWholesale ==
    /\ []((scSince = 0 /\ scLast.kind = "state") =>
            /\ Len(scLands) = Len(scLast.lands)
            /\ \A i \in 1..Len(scLast.lands) :
                   scLands[i] = LandSprite(scLast.lands[i])
            /\ Len(scSprites) = Len(scLast.procs)
            /\ \A i \in 1..Len(scLast.procs) :
                   /\ Cardinality({j \in 1..Len(scSprites) :
                          scSprites[j].id = scLast.procs[i].id}) = 1
                   /\ \E j \in 1..Len(scSprites) :
                          /\ scSprites[j] = ProcSprite(scLast.procs[i])
                          /\ scSprites[j].progress = scLast.procs[i].progress)
    /\ [][scSince' = 0 => scTick' = scTick]_vars

\* A state with a land and a process of progress 0 has just been ingested
\* into a Scene that had already ticked, so whatever it held before had
\* advanced.
C22_Witness ==
    /\ scSince = 0
    /\ scTick >= 2
    /\ scLast.kind = "state"
    /\ Len(scLast.lands) = 1
    /\ Len(scLast.procs) = 1
    /\ scLast.procs[1].progress = 0
    /\ scSprites[1].progress = 0

\* C23: every access of Update, Render, Frames, Close and Draw to the stored
\* state, the tick and the closed flag is made with the Renderer's mutex held.
\* A Render call reads the closed flag; were that read made under the mutex of
\* its lock section, no write of the flag could come between the section and
\* the read: whenever a call stands at the read, the flag is what it was in
\* the call's lock section.
C23_RenderReadsClosedUnderLock ==
    \A c \in Callers : rpc[c] = "check" => closed = rcl[c]

\* C24: fillRectSW and fillCircleSW write only pixels inside the buffer,
\* 0 <= x < width and 0 <= y < height, for a shape at any position and of any
\* size, and they write every pixel of the shape that lies inside the buffer.
\* The rectangle is x <= px < x + w, y <= py < y + h; the circle is the points
\* at distance at most radius from the centre.
C24_RasterizerClipsToBuffer ==
    rasOut.drawn =>
        /\ \A p \in rasOut.pixels :
               /\ 0 <= p[1] /\ p[1] < rasIn.maxW
               /\ 0 <= p[2] /\ p[2] < rasIn.maxH
        /\ \A px \in 0..(rasIn.maxW - 1), py \in 0..(rasIn.maxH - 1) :
               (IF rasIn.kind = "rect"
                THEN /\ rasIn.x <= px /\ px < rasIn.x + rasIn.w
                     /\ rasIn.y <= py /\ py < rasIn.y + rasIn.h
                ELSE /\ rasIn.w >= 0
                     /\ (px - rasIn.x) * (px - rasIn.x)
                          + (py - rasIn.y) * (py - rasIn.y) <= rasIn.w * rasIn.w)
                   => <<px, py>> \in rasOut.pixels

\* A circle whose centre lies left of and above the buffer and which reaches
\* into it was drawn: part of it was clipped, part of it written.
C24_Witness ==
    /\ rasOut.drawn
    /\ rasIn.kind = "circle"
    /\ rasIn.x < 0
    /\ rasIn.y < 0
    /\ rasIn.w >= 2
    /\ <<0, 0>> \in rasOut.pixels
    /\ Cardinality(rasOut.pixels) < rasIn.maxW * rasIn.maxH

\* C25: the frames of one Frames stream reach the consumer in production
\* order with non-decreasing tick, in software and in accelerated mode.  The
\* consumer receives from the head of the stream's channel, so of two frames
\* waiting in it the one nearer the head was not drawn at a later tick.
C25_StreamFramesInTickOrder ==
    \A s \in Streams :
        \A i, j \in 1..Len(frames[s]) :
            i < j => frames[s][i].tk <= frames[s][j].tk

\* C26: the tick never decreases, and between two consecutive frames that one
\* Frames stream publishes it grows by exactly one, whatever Render calls run
\* beside the stream: a frame the stream appends to its channel was drawn at
\* the tick one above that of the frame it published just before, and no step
\* lowers the tick.
C26_TickAdvancesOncePerStreamFrame ==
    [][/\ tick' >= tick
       /\ \A s \in Streams :
             (/\ spc[s] = "publish"
              /\ frames[s] # <<>>
              /\ Len(frames'[s]) = Len(frames[s]) + 1)
                 => sframe[s].tk = frames[s][Len(frames[s])].tk + 1]_vars

====
